---- MODULE Spec2Model ----
(***************************************************************************)
(* FM-index (faassen/fm-index): construction of the index from a text,     *)
(* backward search with a cursor, locate through the sampled suffix array, *)
(* and the forward / backward text iterators.                              *)
(*                                                                         *)
(* Rows and text offsets are 0-based as in the Rust code; TLA+ sequences   *)
(* are 1-based, so position p of a vector v is v[p + 1].                   *)
(***************************************************************************)
EXTENDS Integers, Sequences, FiniteSets, TLC

VARIABLES
    text,       \* the Vec<T> handed to FMIndex::new
    level,      \* the sampling level of the SuffixArraySOSampler
    pc,         \* "init" | "ready" | "no_sentinel" | "panicked" | "hung"
    fm_index,   \* the FMIndex struct: occs, bw, suffix_array
    search,     \* the live Search cursor: s, e, pattern
    calls,      \* history: the patterns passed to search_backward, in call order
    located,    \* the Vec<u64> returned by the last locate()
    iter        \* the live iterator: kind, start row, i, items emitted, rows visited

vars == <<text, level, pc, fm_index, search, calls, located, iter>>

----------------------------------------------------------------------------
(* Bounds of the model *)

\* longest text handed to FMIndex::new
MaxLen == 5
\* longest accumulated pattern of a cursor
MaxPat == 2
\* highest sampling level
MaxLevel == 2
\* RangeConverter::new(Lo, Hi): the smallest symbol of the range
Lo == 2

Hi == Lo + 1

\* items taken from an iterator: more than n, so that the text wraps
MaxItems == MaxLen + 2

Sentinel == 0

\* a symbol the converter does not accept: its code lies beyond the C table
OutSym == Hi + 2

TextSyms == {Sentinel} \cup (Lo .. Hi)

PatSyms == TextSyms \cup {OutSym}

RECURSIVE SeqsOfLen(_, _)
SeqsOfLen(S, k) ==
    IF k = 0 THEN {<<>>}
    ELSE {Append(q, x) : q \in SeqsOfLen(S, k - 1), x \in S}

SeqsUpTo(S, k) == UNION {SeqsOfLen(S, j) : j \in 0 .. k}

Texts == SeqsUpTo(TextSyms, MaxLen) \ {<<>>}

----------------------------------------------------------------------------
(* Converter (RangeConverter) *)

\* converter.len(): the size of the dense code alphabet
ConverterLen == Hi - Lo + 2

convert(c) == IF c = Sentinel THEN 0 ELSE c - Lo + 1

convert_inv(c) == IF c = 0 THEN Sentinel ELSE c + Lo - 1

----------------------------------------------------------------------------
(* sais: suffix array, character counts, bucket starts *)

RECURSIVE SuffixLess(_, _, _)
\* the suffix of t at p is lexicographically smaller than the one at q
SuffixLess(t, p, q) ==
    IF p = q THEN FALSE
    ELSE IF p >= Len(t) THEN TRUE
    ELSE IF q >= Len(t) THEN FALSE
    ELSE IF convert(t[p + 1]) < convert(t[q + 1]) THEN TRUE
    ELSE IF convert(t[p + 1]) > convert(t[q + 1]) THEN FALSE
    ELSE SuffixLess(t, p + 1, q + 1)

\* sais::sais: sa[i + 1] is the start of the i-th smallest suffix
sais(t) ==
    [r \in 1 .. Len(t) |->
        CHOOSE p \in 0 .. Len(t) - 1 :
            Cardinality({q \in 0 .. Len(t) - 1 : SuffixLess(t, q, p)}) = r - 1]

\* sais::count_chars
count_chars(t) ==
    [c \in 0 .. ConverterLen |->
        Cardinality({p \in 1 .. Len(t) : convert(t[p]) = c})]

RECURSIVE SumBelow(_, _)
SumBelow(cnt, c) == IF c = 0 THEN 0 ELSE SumBelow(cnt, c - 1) + cnt[c - 1]

\* sais::get_bucket_start_pos: the C table, C[c] = number of symbols with code < c
get_bucket_start_pos(cnt) == [c \in DOMAIN cnt |-> SumBelow(cnt, c)]

----------------------------------------------------------------------------
(* WaveletMatrix over the BWT, as the sequence it represents *)

access(bw, i) == bw[i + 1]

\* occurrences of code c in bw[0, i)
rank(bw, c, i) == Cardinality({j \in 1 .. i : bw[j] = c})

\* position of the (k+1)-th occurrence of code c
select(bw, c, k) ==
    CHOOSE j \in 0 .. Len(bw) - 1 : bw[j + 1] = c /\ rank(bw, c, j) = k

----------------------------------------------------------------------------
(* SuffixArraySOSampler / sampled suffix array *)

NoSample == -1

RECURSIVE Pow2(_)
Pow2(k) == IF k = 0 THEN 1 ELSE 2 * Pow2(k - 1)

\* sampler.sample(sa): row i is kept iff sa[i] mod 2^level = 0
sample(sa, lv) ==
    [r \in 1 .. Len(sa) |-> IF sa[r] % Pow2(lv) = 0 THEN sa[r] ELSE NoSample]

\* suffix_array.get(i): Some(sa) or None
ssa_get(i) == fm_index.suffix_array[i + 1]

----------------------------------------------------------------------------
(* FMIndex *)

\* mutant: the symbol at sa[i] instead of the one before it
bwt_of_at_suffix(t, sa) ==
    [i \in 1 .. Len(t) |-> convert(t[sa[i] + 1])]

\* the L column of FMIndex::new
bwt_of(t, sa) ==
    [i \in 1 .. Len(t) |-> IF sa[i] > 0 THEN convert(t[sa[i]]) ELSE 0]

\* FMIndex::new
FMIndex_new(t, lv) ==
    LET sa == sais(t)
    IN  [occs |-> get_bucket_start_pos(count_chars(t)),
         bw |-> bwt_of(t, sa),
         suffix_array |-> sample(sa, lv)]

NoIndex == [occs |-> <<>>, bw |-> <<>>, suffix_array |-> <<>>]

\* FMIndex::len
len == Len(fm_index.bw)

RECURSIVE get_f_char_loop(_, _, _)
get_f_char_loop(i, s, e) ==
    IF e - s > 1
    THEN LET m == s + (e - s) \div 2
         IN  IF fm_index.occs[m] <= i
             THEN get_f_char_loop(i, m, e)
             ELSE get_f_char_loop(i, s, m)
    ELSE s

\* FMIndex::get_f_char: binary search of the C table
get_f_char(i) == get_f_char_loop(i, 0, Cardinality(DOMAIN fm_index.occs))

\* self.occs[c as usize] is inside the vector
OccsInBounds(c) == c \in DOMAIN fm_index.occs

\* mutant: the bucket start occs[c] is left out
lf_map_no_occ(c, i) == rank(fm_index.bw, c, i)

\* FMIndex::lf_map
lf_map(c, i) == fm_index.occs[c] + rank(fm_index.bw, c, i)

\* FMIndex::inverse_lf_map
inverse_lf_map(c, i) == select(fm_index.bw, c, i - fm_index.occs[c])

\* LF(i) = lf_map(L[i], i), the step of BackwardIterator::next and get_sa
LF(i) == lf_map(access(fm_index.bw, i), i)

\* FL(i) = inverse_lf_map(get_f_char(i), i), the step of ForwardIterator::next
FL(i) == inverse_lf_map(get_f_char(i), i)

RECURSIVE get_sa_loop_forgets_steps(_, _)
\* mutant: the sample is returned without the steps walked to reach it
get_sa_loop_forgets_steps(i, steps) ==
    IF ssa_get(i) # NoSample
    THEN [returns |-> TRUE, value |-> ssa_get(i) % len, steps |-> steps]
    ELSE IF steps >= len
    THEN [returns |-> FALSE, value |-> 0, steps |-> steps]
    ELSE get_sa_loop_forgets_steps(LF(i), steps + 1)

RECURSIVE get_sa_loop(_, _)
\* the loop of FMIndex::get_sa; after len steps without a sample the orbit of
\* LF holds no sampled row and the loop never returns
get_sa_loop(i, steps) ==
    IF ssa_get(i) # NoSample
    THEN [returns |-> TRUE, value |-> (ssa_get(i) + steps) % len, steps |-> steps]
    ELSE IF steps >= len
    THEN [returns |-> FALSE, value |-> 0, steps |-> steps]
    ELSE get_sa_loop(LF(i), steps + 1)

\* FMIndex::get_sa
get_sa(i) == get_sa_loop(i, 0)

----------------------------------------------------------------------------
(* Search cursor *)

\* Search::new
Search_new(s, e, pattern) == [live |-> TRUE, s |-> s, e |-> e, pattern |-> pattern]

NoSearch == [live |-> FALSE, s |-> 0, e |-> 0, pattern |-> <<>>]

RECURSIVE search_loop_no_break(_, _, _, _)
\* mutant: the loop has no break and reads every symbol of the pattern
search_loop_no_break(pattern, k, s, e) ==
    IF k = 0 THEN [panicked |-> FALSE, s |-> s, e |-> e]
    ELSE LET c == convert(pattern[k])
         IN  IF ~OccsInBounds(c)
             THEN [panicked |-> TRUE, s |-> s, e |-> e]
             ELSE search_loop_no_break(pattern, k - 1, lf_map(c, s), lf_map(c, e))

RECURSIVE search_loop(_, _, _, _)
\* the for loop of Search::search_backward over pattern.iter().rev();
\* k symbols of the pattern are still to be read
search_loop(pattern, k, s, e) ==
    IF k = 0 THEN [panicked |-> FALSE, s |-> s, e |-> e]
    ELSE LET c == convert(pattern[k])
         IN  IF ~OccsInBounds(c)
             THEN [panicked |-> TRUE, s |-> s, e |-> e]
             ELSE LET s2 == lf_map(c, s)
                      e2 == lf_map(c, e)
                  IN  IF s2 = e2
                      THEN [panicked |-> FALSE, s |-> s2, e |-> e2]
                      ELSE search_loop(pattern, k - 1, s2, e2)

\* mutant: the loop starts from the whole index instead of the cursor's range
search_backward_from_scratch(self, pattern) ==
    LET r == search_loop(pattern, Len(pattern), 0, len)
    IN  [panicked |-> r.panicked,
         search |-> Search_new(r.s, r.e, pattern \o self.pattern)]

\* mutant: the new cursor gets the two ends of the range in the wrong order
search_backward_ends_swapped(self, pattern) ==
    LET r == search_loop(pattern, Len(pattern), self.s, self.e)
    IN  [panicked |-> r.panicked,
         search |-> Search_new(r.e, r.s, pattern \o self.pattern)]

\* Search::search_backward
search_backward(self, pattern) ==
    LET r == search_loop(pattern, Len(pattern), self.s, self.e)
    IN  [panicked |-> r.panicked,
         search |-> Search_new(r.s, r.e, pattern \o self.pattern)]

\* FMIndex::search_backward
FMIndex_search_backward(pattern) ==
    search_backward(Search_new(0, len, <<>>), pattern)

\* Search::count
count(self) == self.e - self.s

\* Search::locate: one get_sa per row of the range
locate(self) == [k \in 1 .. (self.e - self.s) |-> get_sa(self.s + k - 1)]

----------------------------------------------------------------------------
(* State machine *)

NoIter == [kind |-> "none", start |-> 0, i |-> 0, out |-> <<>>, trail |-> <<>>]

NoLocate == [done |-> FALSE, results |-> <<>>]

EndsWithSentinel(t) == Len(t) > 0 /\ t[Len(t)] = Sentinel

Init ==
    /\ text \in Texts
    /\ level = 0
    /\ pc = "init"
    /\ fm_index = NoIndex
    /\ search = NoSearch
    /\ calls = <<>>
    /\ located = NoLocate
    /\ iter = NoIter

\* FMIndex::new(text, converter, sampler.level(lv)). The text is taken as it
\* is: nothing is appended. sais may rely on the final sentinel, so without it
\* the call either fails there or returns an index of the same length, on
\* which no query is modelled.
New(lv) ==
    /\ pc = "init"
    /\ level' = lv
    /\ fm_index' = FMIndex_new(text, lv)
    /\ pc' \in IF EndsWithSentinel(text) THEN {"ready"}
               ELSE {"no_sentinel", "panicked"}
    /\ UNCHANGED <<text, search, calls, located, iter>>

\* fm_index.search_backward(p); the model follows one cursor at a time
SearchBackward(p) ==
    /\ pc = "ready"
    /\ ~search.live
    /\ LET r == FMIndex_search_backward(p)
       IN  /\ pc' = IF r.panicked THEN "panicked" ELSE "ready"
           /\ search' = IF r.panicked THEN NoSearch ELSE r.search
    /\ calls' = <<p>>
    /\ located' = NoLocate
    /\ iter' = NoIter
    /\ UNCHANGED <<text, level, fm_index>>

\* search.search_backward(p) on the live cursor; an empty p leaves range and
\* pattern as they are and is left out to keep the call history finite
Extend(p) ==
    /\ pc = "ready"
    /\ search.live
    /\ Len(p) > 0
    /\ Len(p) + Len(search.pattern) <= MaxPat
    /\ LET r == search_backward(search, p)
       IN  /\ pc' = IF r.panicked THEN "panicked" ELSE "ready"
           /\ search' = IF r.panicked THEN search ELSE r.search
    /\ calls' = Append(calls, p)
    /\ located' = NoLocate
    /\ iter' = NoIter
    /\ UNCHANGED <<text, level, fm_index>>

\* search.locate()
Locate ==
    /\ pc = "ready"
    /\ search.live
    /\ ~located.done
    /\ LET r == locate(search)
       IN  IF \A k \in DOMAIN r : r[k].returns
           THEN /\ located' = [done |-> TRUE,
                               results |-> [k \in DOMAIN r |-> r[k].value]]
                /\ pc' = pc
           ELSE /\ located' = located
                /\ pc' = "hung"
    /\ iter' = NoIter
    /\ UNCHANGED <<text, level, fm_index, search, calls>>

\* fm_index.iter_forward(i), i a row of the cursor's range
IterForward(i) ==
    /\ pc = "ready"
    /\ search.live
    /\ i < len
    /\ iter' = [kind |-> "fwd", start |-> i, i |-> i, out |-> <<>>, trail |-> <<>>]
    /\ located' = NoLocate
    /\ UNCHANGED <<text, level, pc, fm_index, search, calls>>

\* fm_index.iter_backward(i), i a row of the cursor's range
IterBackward(i) ==
    /\ pc = "ready"
    /\ search.live
    /\ i < len
    /\ iter' = [kind |-> "bwd", start |-> i, i |-> i, out |-> <<>>, trail |-> <<>>]
    /\ located' = NoLocate
    /\ UNCHANGED <<text, level, pc, fm_index, search, calls>>

\* mutant: the item is read after the step instead of before it
ForwardNext_ReadAfterStep ==
    /\ pc = "ready"
    /\ iter.kind = "fwd"
    /\ Len(iter.out) < MaxItems
    /\ LET i2 == inverse_lf_map(get_f_char(iter.i), iter.i)
           c == get_f_char(i2)
       IN  iter' = [iter EXCEPT !.i = i2,
                                !.out = Append(@, convert_inv(c)),
                                !.trail = Append(@, i2)]
    /\ UNCHANGED <<text, level, pc, fm_index, search, calls, located>>

\* ForwardIterator::next
ForwardNext ==
    /\ pc = "ready"
    /\ iter.kind = "fwd"
    /\ Len(iter.out) < MaxItems
    /\ LET c == get_f_char(iter.i)
           i2 == inverse_lf_map(c, iter.i)
       IN  iter' = [iter EXCEPT !.i = i2,
                                !.out = Append(@, convert_inv(c)),
                                !.trail = Append(@, i2)]
    /\ UNCHANGED <<text, level, pc, fm_index, search, calls, located>>

\* mutant: the item is read after the step instead of before it
BackwardNext_ReadAfterStep ==
    /\ pc = "ready"
    /\ iter.kind = "bwd"
    /\ Len(iter.out) < MaxItems
    /\ LET i2 == lf_map(access(fm_index.bw, iter.i), iter.i)
           c == access(fm_index.bw, i2)
       IN  iter' = [iter EXCEPT !.i = i2,
                                !.out = Append(@, convert_inv(c)),
                                !.trail = Append(@, i2)]
    /\ UNCHANGED <<text, level, pc, fm_index, search, calls, located>>

\* BackwardIterator::next
BackwardNext ==
    /\ pc = "ready"
    /\ iter.kind = "bwd"
    /\ Len(iter.out) < MaxItems
    /\ LET c == access(fm_index.bw, iter.i)
           i2 == lf_map(c, iter.i)
       IN  iter' = [iter EXCEPT !.i = i2,
                                !.out = Append(@, convert_inv(c)),
                                !.trail = Append(@, i2)]
    /\ UNCHANGED <<text, level, pc, fm_index, search, calls, located>>

\* the caller drops the cursor and what it derived from it
Drop ==
    /\ pc = "ready"
    /\ search.live
    /\ search' = NoSearch
    /\ calls' = <<>>
    /\ located' = NoLocate
    /\ iter' = NoIter
    /\ UNCHANGED <<text, level, pc, fm_index>>

\* searching and locating, at every sampling level
Next ==
    \/ \E lv \in 0 .. MaxLevel : New(lv)
    \/ \E p \in SeqsUpTo(PatSyms, MaxPat) : SearchBackward(p)
    \/ \E p \in SeqsUpTo(PatSyms, MaxPat) : Extend(p)
    \/ Locate
    \/ Drop

Spec == Init /\ [][Next]_vars

\* walking the text with the iterators; they never read the sampled suffix array
NextIter ==
    \/ New(0)
    \/ \E p \in SeqsUpTo(PatSyms, MaxPat) : SearchBackward(p)
    \/ \E i \in search.s .. search.e - 1 : IterForward(i)
    \/ \E i \in search.s .. search.e - 1 : IterBackward(i)
    \/ ForwardNext
    \/ BackwardNext
    \/ Drop

SpecIter == Init /\ [][NextIter]_vars

----------------------------------------------------------------------------
(* Reference definitions for the properties *)

\* the full suffix array of the text, which the index keeps only in samples
SA == sais(text)

\* the naive scan: offsets of t at which P starts
Occurrences(t, P) ==
    {p \in 0 .. Len(t) - Len(P) : \A k \in 1 .. Len(P) : t[p + k] = P[k]}

RECURSIVE Flatten(_)
\* each call adds its pattern as a prefix: calls <<Q, P>> give P . Q
Flatten(cs) == IF cs = <<>> THEN <<>> ELSE Flatten(Tail(cs)) \o Head(cs)

Symbols(P) == {P[k] : k \in 1 .. Len(P)}

\* every symbol is one the converter accepts, the sentinel included
Accepted(P) == Symbols(P) \subseteq TextSyms

\* the only sentinel of the text is its last symbol
UniqueSentinel(t) ==
    /\ EndsWithSentinel(t)
    /\ \A p \in 1 .. Len(t) - 1 : t[p] # Sentinel

\* symbol of the text at offset p, taken modulo n
TextAt(p) == text[(p % Len(text)) + 1]

RECURSIVE RangeAfter(_, _)
\* the range [0, n) moved by the last k symbols of P, last symbol first, one
\* LF step per symbol at each end
RangeAfter(P, k) ==
    IF k = 0 THEN [s |-> 0, e |-> len]
    ELSE LET r == RangeAfter(P, k - 1)
             c == convert(P[Len(P) - k + 1])
         IN  [s |-> lf_map(c, r.s), e |-> lf_map(c, r.e)]

----------------------------------------------------------------------------
(* Properties *)

\* C1: after fm_index.search_backward(P) with P non-empty and of accepted
\* symbols, count() is the number of offsets at which the naive scan finds P
\* (which is 0 when P does not occur).
C1_CountIsNaiveCount ==
    (pc = "ready" /\ search.live /\ Len(calls) = 1 /\ search.pattern # <<>>
        /\ Accepted(search.pattern))
    => count(search) = Cardinality(Occurrences(text, search.pattern))

\* C2: locate() returns exactly the offsets at which the pattern starts, one
\* value per counted occurrence, at every sampling level.
C2_LocateIsOccurrences ==
    (pc = "ready" /\ located.done /\ search.pattern # <<>>
        /\ Accepted(search.pattern))
    => /\ {located.results[k] : k \in DOMAIN located.results}
            = Occurrences(text, search.pattern)
       /\ Len(located.results) = count(search)

\* C3: a pattern that contains the sentinel, however the cursor was built, has
\* count() equal to the number of its occurrences in the text.
C3_SentinelPatternCount ==
    (pc = "ready" /\ search.live /\ Accepted(search.pattern)
        /\ Sentinel \in Symbols(search.pattern))
    => count(search) = Cardinality(Occurrences(text, search.pattern))

\* C4 as stated, for all patterns: whenever one search(P . Q) returns a
\* cursor, search(Q) followed by the extensions returns a cursor too, with the
\* accumulated pattern P . Q and the same count() and locate(), also when the
\* range became empty on the way.
C4_ExtensionComposes_AnyPattern ==
    (pc \in {"ready", "panicked"} /\ Len(calls) >= 2
        /\ ~FMIndex_search_backward(Flatten(calls)).panicked)
    => /\ pc = "ready"
       /\ search.live
       /\ search.pattern = Flatten(calls)
       /\ count(search) = count(FMIndex_search_backward(Flatten(calls)).search)
       /\ locate(search) = locate(FMIndex_search_backward(Flatten(calls)).search)

\* C4 for patterns of accepted symbols only: a cursor built by search(Q) and
\* then extensions has the accumulated pattern P . Q, and the same count() and
\* locate() as one search(P . Q), also when the range became empty on the way.
C4_ExtensionComposes ==
    (pc = "ready" /\ search.live /\ Len(calls) >= 2 /\ Accepted(Flatten(calls)))
    => LET one == FMIndex_search_backward(Flatten(calls))
       IN  /\ ~one.panicked
           /\ search.pattern = Flatten(calls)
           /\ search.pattern = one.search.pattern
           /\ count(search) = count(one.search)
           /\ locate(search) = locate(one.search)

\* C4 witness: search(Q) found nothing, the extension by P went on from the
\* empty range, and one search(P . Q) stopped at another empty range.
C4_Witness ==
    /\ pc = "ready" /\ search.live /\ Len(calls) = 2
    /\ calls[1] # <<>> /\ calls[2] # <<>>
    /\ Accepted(Flatten(calls))
    /\ count(search) = 0
    /\ search.s # FMIndex_search_backward(Flatten(calls)).search.s

\* C5: an input that does not end with the sentinel gets it appended, so
\* len() is the input length plus one.
C5_LenCountsAppendedSentinel ==
    (pc \in {"ready", "no_sentinel"} /\ ~EndsWithSentinel(text))
    => len = Len(text) + 1

\* C6: a search whose pattern holds a symbol outside the converter's range
\* does not panic and yields an empty cursor.
C6_OutOfRangeGivesEmptyCursor ==
    (calls # <<>> /\ OutSym \in Symbols(Flatten(calls)))
    => (pc = "ready" /\ search.live /\ count(search) = 0)

\* C7 as stated, for every text that ends with the sentinel: the j-th item of
\* the forward iterator started at row i is T[(SA[i] + j) mod n].
C7_ForwardEmitsText_AnyText ==
    (pc = "ready" /\ iter.kind = "fwd")
    => \A j \in 1 .. Len(iter.out) :
          iter.out[j] = TextAt(SA[iter.start + 1] + j - 1)

\* C7 amended: on a text whose only sentinel is its last symbol the forward
\* iterator stays on a row of [0, n) and so never ends, the j-th item is T[(SA[i] + j) mod n], and
\* started at the range start of a matching search(P) it spells P first.
C7_ForwardEmitsText ==
    (pc = "ready" /\ iter.kind = "fwd" /\ UniqueSentinel(text))
    => /\ \A j \in 1 .. Len(iter.out) :
             iter.out[j] = TextAt(SA[iter.start + 1] + j - 1)
       /\ iter.i \in 0 .. len - 1
       /\ (iter.start = search.s /\ count(search) > 0)
          => \A j \in 1 .. Len(iter.out) :
                j <= Len(search.pattern) => iter.out[j] = search.pattern[j]

C7_Witness ==
    /\ pc = "ready" /\ iter.kind = "fwd" /\ UniqueSentinel(text)
    /\ Len(text) = MaxLen
    /\ Len(iter.out) = MaxItems
    /\ iter.start = search.s
    /\ Len(search.pattern) = MaxPat
    /\ Sentinel \notin Symbols(search.pattern)
    /\ count(search) > 0

\* C8 as stated, for every text that ends with the sentinel: the j-th item of
\* the backward iterator started at row i is T[(SA[i] - 1 - j) mod n].
C8_BackwardEmitsText_AnyText ==
    (pc = "ready" /\ iter.kind = "bwd")
    => \A j \in 1 .. Len(iter.out) :
          iter.out[j] = TextAt(SA[iter.start + 1] + MaxItems * Len(text) - j)

\* C8 amended: on a text whose only sentinel is its last symbol the backward
\* iterator stays on a row of [0, n) and so never ends, and the j-th item is
\* T[(SA[i] - 1 - j) mod n].
C8_BackwardEmitsText ==
    (pc = "ready" /\ iter.kind = "bwd" /\ UniqueSentinel(text))
    => /\ \A j \in 1 .. Len(iter.out) :
             iter.out[j] = TextAt(SA[iter.start + 1] + MaxItems * Len(text) - j)
       /\ iter.i \in 0 .. len - 1

C8_Witness ==
    /\ pc = "ready" /\ iter.kind = "bwd" /\ UniqueSentinel(text)
    /\ Len(text) = MaxLen
    /\ Len(iter.out) = MaxItems
    /\ iter.start > 0

\* C9: on every index built from a text that ends with the sentinel, LF and
\* FL are inverse to each other on the rows [0, n).
C9_LfFlInverse ==
    pc = "ready"
    => \A i \in 0 .. len - 1 :
          /\ LF(i) \in 0 .. len - 1
          /\ FL(i) \in 0 .. len - 1
          /\ FL(LF(i)) = i
          /\ LF(FL(i)) = i

C9_Witness ==
    /\ pc = "ready"
    /\ UniqueSentinel(text)
    /\ len = MaxLen
    /\ \A i \in 0 .. len - 1 : LF(i) # i
    /\ iter.kind = "bwd" /\ Len(iter.trail) > 0

\* the rows reached from row 0 by the first n applications of LF
OrbitOk(trail, n) ==
    /\ {trail[k] : k \in 1 .. n} = 0 .. n - 1
    /\ trail[n] = 0

\* C10 as stated, for every text that ends with the sentinel: n applications
\* of LF from row 0 visit every row once and end at row 0.
C10_LfSingleCycle_AnyText ==
    (pc = "ready" /\ iter.kind = "bwd" /\ iter.start = 0
        /\ Len(iter.trail) >= len)
    => OrbitOk(iter.trail, len)

\* C10 amended: on a text whose only sentinel is its last symbol, n
\* applications of LF from row 0 visit every row once and end at row 0.
C10_LfSingleCycle ==
    (pc = "ready" /\ iter.kind = "bwd" /\ iter.start = 0
        /\ Len(iter.trail) >= len /\ UniqueSentinel(text))
    => OrbitOk(iter.trail, len)

C10_Witness ==
    /\ pc = "ready" /\ iter.kind = "bwd" /\ iter.start = 0
    /\ UniqueSentinel(text)
    /\ len = MaxLen
    /\ Len(iter.trail) = len

\* C11: every cursor reached from the initial cursor [0, n) by a search and
\* any extensions with patterns of accepted symbols has 0 <= s <= e <= n, so
\* count() = e - s is neither negative nor above n.
C11_CursorRange ==
    (pc = "ready" /\ search.live /\ Accepted(Flatten(calls)))
    => /\ 0 <= search.s
       /\ search.s <= search.e
       /\ search.e <= len
       /\ count(search) \in 0 .. len

\* C11 witness: a cursor extended once whose range lies strictly inside
\* [0, n) and holds more than one row.
C11_Witness ==
    /\ pc = "ready" /\ search.live /\ Len(calls) = 2
    /\ calls[1] # <<>> /\ calls[2] # <<>>
    /\ UniqueSentinel(text)
    /\ Accepted(Flatten(calls)) /\ Sentinel \notin Symbols(Flatten(calls))
    /\ 0 < search.s /\ search.e < len
    /\ count(search) >= 2

\* one search(P): the range is the one reached at the first symbol, read from
\* the end of P, that made it empty, and no later symbol has moved it
C12_LoopStops ==
    (pc = "ready" /\ search.live /\ Len(calls) = 1 /\ Accepted(search.pattern))
    => \A k \in 1 .. Len(search.pattern) :
          (/\ RangeAfter(search.pattern, k).s = RangeAfter(search.pattern, k).e
           /\ \A j \in 1 .. k - 1 :
                 RangeAfter(search.pattern, j).s # RangeAfter(search.pattern, j).e)
          => /\ search.s = RangeAfter(search.pattern, k).s
             /\ search.e = RangeAfter(search.pattern, k).e

\* an extension of an empty cursor by p gives an empty cursor, whose range
\* is the old one moved by the last symbol of p alone
C12_ExtendEmpty ==
    (/\ pc = "ready" /\ pc' = "ready"
     /\ search.live /\ search'.live
     /\ Len(calls') = Len(calls) + 1
     /\ count(search) = 0)
    => /\ count(search') = 0
       /\ LET p == calls'[Len(calls')]
          IN  OccsInBounds(convert(p[Len(p)]))
              => search'.s = lf_map(convert(p[Len(p)]), search.s)

\* C12: emptiness is absorbing: every extension of a cursor with s = e gives
\* a cursor with s = e (count 0), and the backward-search loop stops moving
\* the range at the first pattern symbol that makes s = e.
C12_EmptinessAbsorbing == []C12_LoopStops /\ [][C12_ExtendEmpty]_vars

\* C12 witness: search(Q) found nothing and the extension by P moved the
\* empty range to another empty range.
C12_Witness ==
    /\ pc = "ready" /\ search.live /\ Len(calls) = 2
    /\ calls[1] # <<>> /\ calls[2] # <<>>
    /\ UniqueSentinel(text)
    /\ Sentinel \notin Symbols(Flatten(calls))
    /\ ~FMIndex_search_backward(calls[1]).panicked
    /\ count(FMIndex_search_backward(calls[1]).search) = 0
    /\ count(search) = 0
    /\ search.s # FMIndex_search_backward(calls[1]).search.s

\* get_sa(r) returns, after at most 2^level - 1 and fewer than n LF steps,
\* with the value SA[r]
GetSaOk(r) ==
    /\ get_sa(r).returns
    /\ get_sa(r).steps <= Pow2(level) - 1
    /\ get_sa(r).steps < len
    /\ get_sa(r).value = SA[r + 1]

\* on every row get_sa is as GetSaOk says, and a finished locate() holds
\* SA[r] for each row r of the cursor's range
GetSaOkEverywhere ==
    /\ pc # "hung"
    /\ pc = "ready" => \A r \in 0 .. len - 1 : GetSaOk(r)
    /\ (pc = "ready" /\ located.done)
       => \A k \in DOMAIN located.results :
             located.results[k] = SA[search.s + k]

\* C13 as stated, for every text that ends with the sentinel and every level:
\* get_sa(r) terminates for every row within 2^k - 1 steps and returns SA[r].
C13_GetSaTerminates_AnyText == GetSaOkEverywhere

\* C13 amended: on an index built at level k from a text whose only sentinel
\* is its last symbol, get_sa(r) terminates for every row r of [0, n) after
\* at most 2^k - 1 and fewer than n LF steps, and returns SA[r].
C13_GetSaTerminates == UniqueSentinel(text) => GetSaOkEverywhere

\* C13 witness: locate() over all rows of the longest text at the highest
\* level, where some row is 2^k - 1 steps away from its sample.
C13_Witness ==
    /\ pc = "ready" /\ located.done
    /\ UniqueSentinel(text)
    /\ Len(text) = MaxLen /\ level = MaxLevel
    /\ search.s = 0 /\ search.e = len
    /\ \E r \in 0 .. len - 1 :
          get_sa(r).returns /\ get_sa(r).steps = Pow2(level) - 1

====
